---------------------------- MODULE Spec2Model ----------------------------
(***************************************************************************)
(* NFC building registry: the NDEF record decoder                          *)
(* (NFCBuildingRegistry::parseNDEFBuildingType), the card registry         *)
(* (addBuilding, removeBuilding, ...), the scan cycle (scanForCards) and   *)
(* its use of the reader (readNDEFData, getCardUID, uidToString).          *)
(*                                                                         *)
(* Byte buffers are sequences of 0..255; a C++ index x is the TLA+ index   *)
(* x + 1.  Strings (card UIDs) are sequences of one-character strings.     *)
(***************************************************************************)
EXTENDS Integers, Sequences, FiniteSets, TLC

VARIABLES
    data,        \* the std::vector<uint8_t> handed to parseNDEFBuildingType
    recs,        \* the NDEF records `data` was cut from (<<>>: not a prefix input)
    dec,         \* the decoder's position and locals
    db,          \* buildingDatabase: UID -> BuildingCard
    deleteMode,  \* the mode flag
    onNew,       \* onNewBuildingCallback holds a callable
    onDelete,    \* onDeleteBuildingCallback holds a callable
    now,         \* millis()
    events,      \* the handler invocations since the last scan cycle began
                 \* (in SpecLifecycle: since the registry was constructed)
    ret,         \* the last call of another actor and what it returned
    scan,        \* scanForCards: the polling actor's position and locals
    rdr          \* scanForCards up to the dispatch: the reader and what it read

(***************************************************************************)
(* Bounds of the model.                                                    *)
(***************************************************************************)
MaxTokens == 4
MaxPad == 2
MaxRecords == 2
MaxPayload == 2
MaxWrap == 8
MaxTail == 2
MaxTicks == 2
MaxUidLen == 2
MaxEvents == 4

(***************************************************************************)
(* Platform: size_t is 32 bits wide on ESP8266 and ESP32.                  *)
(***************************************************************************)
SizeBits == 32

(***************************************************************************)
(* A size_t value x is held as its two halves, x = hi * HalfMod + lo: TLC  *)
(* computes with 32-bit signed integers and cannot hold 2^32 - 1 itself.   *)
(* Cursors (i, p, msgEnd, k) stay far below 2^31 and are plain naturals.   *)
(***************************************************************************)
HalfMod == 2 ^ (SizeBits \div 2)

FromNat(n) == [hi |-> n \div HalfMod, lo |-> n % HalfMod]

ToNat(x) == x.hi * HalfMod + x.lo

AddU32(a, b) ==
    LET lo == a.lo + b.lo
    IN  [hi |-> (a.hi + b.hi + lo \div HalfMod) % HalfMod, lo |-> lo % HalfMod]

GtU32(a, b) == a.hi > b.hi \/ (a.hi = b.hi /\ a.lo > b.lo)

Add32(a, b) == ToNat(AddU32(FromNat(a), FromNat(b)))

BitSet(b, mask) == (b \div mask) % 2 = 1

RECURSIVE Concat(_)
Concat(ss) == IF ss = <<>> THEN <<>> ELSE Head(ss) \o Concat(Tail(ss))

SeqsUpTo(S, n) == UNION {[1 .. m -> S] : m \in 0 .. n}

Prefix(d, n) == SubSeq(d, 1, n)

Zeros(n) == [j \in 1 .. n |-> 0]

MarkerB == 66

NullTlv == 0

TerminatorTlv == 254

NdefMessageTlv == 3

ExtendedLength == 255

(***************************************************************************)
(* vector::operator[]: an index past the end is undefined behaviour; the   *)
(* read then yields whatever byte lies behind the buffer (`junk`).         *)
(***************************************************************************)
At(d, idx, junk) == IF idx < Len(d) THEN d[idx + 1] ELSE junk

within(d, idx) == idx < Len(d)

JunkBytes == {0, 255}

(***************************************************************************)
(* The decoder's locals.  pc: start, tlv (outer while), record (inner      *)
(* while), fallback (for k), done.  site: the statement that ended the     *)
(* call.  reads: the indices of `data` the last step read.  stop: what    *)
(* ended the TLV walk ("terminator" for the break at a 0xFE entry).        *)
(***************************************************************************)
DecInit ==
    [pc |-> "start", i |-> 0, p |-> 0, msgEnd |-> 0, k |-> 0,
     result |-> 0, site |-> "none", reads |-> {}, stop |-> "none"]

Return(s, value, site, reads) ==
    [s EXCEPT !.pc = "done", !.result = value, !.site = site, !.reads = reads]

ToFallback(s, reads) ==
    [s EXCEPT !.pc = "fallback", !.k = 0, !.reads = reads]

StartStep(d, s) ==
    IF Len(d) = 0
    THEN Return(s, 0, "empty", {})
    ELSE [s EXCEPT !.pc = "tlv", !.i = 0, !.reads = {}]

ClampMsgEnd_NoClamp(msgEnd, n) == msgEnd

ClampMsgEnd(msgEnd, n) == IF msgEnd > n THEN n ELSE msgEnd

(***************************************************************************)
(* One iteration of `while (i < data.size())`.                             *)
(***************************************************************************)
MessageTlv(d, s, junk) ==
    LET i == s.i
        n == Len(d)
    IN  IF ~within(d, Add32(i, 1))
        THEN Return(s, 0, "malformed", {i})
        ELSE
        LET len0 == At(d, i + 1, junk)
            ext == len0 = ExtendedLength
        IN  IF ext /\ ~within(d, Add32(i, 3))
            THEN Return(s, 0, "malformed", {i, i + 1})
            ELSE
            LET ndefLen == IF ext
                           THEN At(d, i + 2, junk) * 256 + At(d, i + 3, junk)
                           ELSE len0
                lenFieldBytes == IF ext THEN 3 ELSE 1
                rd == IF ext THEN {i, i + 1, i + 2, i + 3} ELSE {i, i + 1}
                msgStart == Add32(Add32(i, 1), lenFieldBytes)
                msgEnd == Add32(msgStart, ndefLen)
            IN  IF msgStart >= n
                THEN Return(s, 0, "malformed", rd)
                ELSE [s EXCEPT !.pc = "record", !.p = msgStart,
                               !.msgEnd = ClampMsgEnd(msgEnd, n), !.reads = rd]

UnknownTlv(d, s, junk) ==
    LET i == s.i
    IN  IF ~within(d, Add32(i, 1))
        THEN ToFallback(s, {i})
        ELSE
        LET tlvLen == At(d, i + 1, junk)
        IN  IF tlvLen = ExtendedLength
            THEN IF ~within(d, Add32(i, 3))
                 THEN ToFallback(s, {i, i + 1})
                 ELSE [s EXCEPT !.i = Add32(i, 4), !.reads = {i, i + 1}]
            ELSE [s EXCEPT !.i = Add32(Add32(i, 2), tlvLen), !.reads = {i, i + 1}]

TlvStep(d, s, junk) ==
    IF ~(s.i < Len(d))
    THEN ToFallback(s, {})
    ELSE
    LET tlvType == At(d, s.i, junk)
    IN  IF tlvType = NullTlv
        THEN [s EXCEPT !.i = Add32(s.i, 1), !.reads = {s.i}]
        ELSE IF tlvType = TerminatorTlv
        THEN [ToFallback(s, {s.i}) EXCEPT !.stop = "terminator"]
        ELSE IF tlvType = NdefMessageTlv
        THEN MessageTlv(d, s, junk)
        ELSE UnknownTlv(d, s, junk)

(***************************************************************************)
(* One iteration of `while (p < msgEnd)`: one NDEF record.                 *)
(***************************************************************************)
IsShortRecord_WrongBit(header) == BitSet(header, 32)

IsShortRecord(header) == BitSet(header, 16)

HasIdField(header) == BitSet(header, 8)

IsMessageEnd(header) == BitSet(header, 64)

BigEndian32(b0, b1, b2, b3) == [hi |-> b0 * 256 + b1, lo |-> b2 * 256 + b3]

PayloadTruncated(p, payloadLen, msgEnd) ==
    GtU32(AddU32(FromNat(p), payloadLen), FromNat(msgEnd))

SkipPayload(p, payloadLen) == ToNat(AddU32(FromNat(p), payloadLen))

IsBuildingRecord(d, typeLen, typePos, junk) ==
    typeLen = 1 /\ At(d, typePos, junk) = MarkerB

MatchedPayload_TypeByte(d, p, payloadLen, junk) ==
    IF payloadLen # FromNat(0) THEN At(d, p - 1, junk) ELSE 0

MatchedPayload(d, p, payloadLen, junk) ==
    IF payloadLen # FromNat(0) THEN At(d, p, junk) ELSE 0

RecordBody(d, s, junk) ==
    LET p0 == s.p
        msgEnd == s.msgEnd
        header == At(d, p0, junk)
        p1 == Add32(p0, 1)
        shortRecord == IsShortRecord(header)
        hasId == HasIdField(header)
    IN  IF ~within(d, p1)
        THEN ToFallback(s, {p0})
        ELSE
        LET typeLen == At(d, p1, junk)
            p2 == Add32(p1, 1)
        IN  IF shortRecord /\ ~within(d, p2)
            THEN ToFallback(s, {p0, p1})
            ELSE IF ~shortRecord /\ Add32(p2, 4) > msgEnd
            THEN ToFallback(s, {p0, p1})
            ELSE
            LET payloadLen ==
                    IF shortRecord
                    THEN FromNat(At(d, p2, junk))
                    ELSE BigEndian32(At(d, p2, junk), At(d, p2 + 1, junk),
                                     At(d, p2 + 2, junk), At(d, p2 + 3, junk))
                p3 == IF shortRecord THEN Add32(p2, 1) ELSE Add32(p2, 4)
                rd3 == {p0, p1} \cup {x \in p2 .. p2 + 3 : x < p3}
            IN  IF hasId /\ ~within(d, p3)
                THEN ToFallback(s, rd3)
                ELSE
                LET idLen == IF hasId THEN At(d, p3, junk) ELSE 0
                    p4 == IF hasId THEN Add32(p3, 1) ELSE p3
                    rd4 == IF hasId THEN rd3 \cup {p3} ELSE rd3
                IN  IF Add32(p4, typeLen) > msgEnd
                    THEN ToFallback(s, rd4)
                    ELSE
                    LET typePos == p4
                        p5 == Add32(p4, typeLen)
                    IN  IF Add32(p5, idLen) > msgEnd
                        THEN ToFallback(s, rd4)
                        ELSE
                        LET p6 == Add32(p5, idLen)
                        IN  IF PayloadTruncated(p6, payloadLen, msgEnd)
                            THEN ToFallback(s, rd4)
                            ELSE IF IsBuildingRecord(d, typeLen, typePos, junk)
                            THEN Return(s, MatchedPayload(d, p6, payloadLen, junk),
                                        IF payloadLen # FromNat(0) THEN "match" ELSE "emptyB",
                                        IF payloadLen # FromNat(0)
                                        THEN rd4 \cup {typePos, p6}
                                        ELSE rd4 \cup {typePos})
                            ELSE
                            LET rd7 == IF typeLen = 1 THEN rd4 \cup {typePos} ELSE rd4
                            IN  IF IsMessageEnd(header)
                                THEN ToFallback(s, rd7)
                                ELSE [s EXCEPT !.p = SkipPayload(p6, payloadLen), !.reads = rd7]

RecordStep(d, s, junk) ==
    IF ~(s.p < s.msgEnd) \/ ~within(d, s.p)
    THEN ToFallback(s, {})
    ELSE RecordBody(d, s, junk)

(***************************************************************************)
(* One iteration of the fallback scan `for (k = 0; k + 4 < size; ++k)`.    *)
(***************************************************************************)
FallbackInRange_Short(k, n) == Add32(k, 5) < n

FallbackInRange(k, n) == Add32(k, 4) < n

FallbackMatch(d, k, junk) ==
    At(d, k + 1, junk) = 1 /\ At(d, k + 2, junk) >= 1 /\ At(d, k + 3, junk) = MarkerB

FallbackStep(d, s, junk) ==
    LET k == s.k
    IN  IF ~FallbackInRange(k, Len(d))
        THEN Return(s, 0, "notfound", {})
        ELSE IF ~IsShortRecord(At(d, k, junk))
        THEN [s EXCEPT !.k = Add32(k, 1), !.reads = {k}]
        ELSE IF FallbackMatch(d, k, junk)
        THEN Return(s, At(d, k + 4, junk), "fallback", {k, k + 1, k + 2, k + 3, k + 4})
        ELSE [s EXCEPT !.k = Add32(k, 1), !.reads = {k, k + 1, k + 2, k + 3}]

DecoderStep(d, s, junk) ==
    CASE s.pc = "start" -> StartStep(d, s)
      [] s.pc = "tlv" -> TlvStep(d, s, junk)
      [] s.pc = "record" -> RecordStep(d, s, junk)
      [] s.pc = "fallback" -> FallbackStep(d, s, junk)
      [] OTHER -> s

(***************************************************************************)
(* The decoder run to its end, as scanForCards calls it.  A run that does  *)
(* not end within `fuel` iterations never returns (Hang).                  *)
(***************************************************************************)
Hang == 256

\* At most n iterations (a finished run stays as it is).
RECURSIVE DecoderSteps(_, _, _, _)
DecoderSteps(d, s, junk, n) ==
    IF n = 0 \/ s.pc = "done" THEN s
    ELSE DecoderSteps(d, DecoderStep(d, s, junk), junk, n - 1)

RECURSIVE DecodeFrom(_, _, _, _)
DecodeFrom(d, s, junk, fuel) ==
    IF s.pc = "done" THEN s.result
    ELSE IF fuel <= 0 THEN Hang
    ELSE DecodeFrom(d, DecoderSteps(d, s, junk, 8), junk, fuel - 8)

parseNDEFBuildingType(d, junk) == DecodeFrom(d, DecInit, junk, 3 * Len(d) + 4)

(***************************************************************************)
(* uidToString: each byte as two uppercase hexadecimal digits.             *)
(***************************************************************************)
LowerDigits ==
    <<"0", "1", "2", "3", "4", "5", "6", "7", "8", "9", "a", "b", "c", "d", "e", "f">>

UpperDigits ==
    <<"0", "1", "2", "3", "4", "5", "6", "7", "8", "9", "A", "B", "C", "D", "E", "F">>

\* String(b, HEX): lowercase, no leading zero.
StringHex(b) ==
    IF b < 16
    THEN <<LowerDigits[b + 1]>>
    ELSE <<LowerDigits[(b \div 16) + 1], LowerDigits[(b % 16) + 1]>>

toUpperCase_Unchanged(str) == str

toUpperCase(str) ==
    [j \in 1 .. Len(str) |->
        IF \E h \in 1 .. 16 : LowerDigits[h] = str[j]
        THEN UpperDigits[CHOOSE h \in 1 .. 16 : LowerDigits[h] = str[j]]
        ELSE str[j]]

RECURSIVE HexOfBytes(_)
HexOfBytes(uid) ==
    IF uid = <<>> THEN <<>>
    ELSE (IF Head(uid) < 16 THEN <<"0">> ELSE <<>>)
         \o StringHex(Head(uid)) \o HexOfBytes(Tail(uid))

uidToString(uid) == toUpperCase(HexOfBytes(uid))

(***************************************************************************)
(* millis(): an unsigned 32-bit millisecond counter, held like a size_t.   *)
(***************************************************************************)
ClockStarts == {[hi |-> HalfMod - 1, lo |-> HalfMod - 2]}

TickAllowed(t) ==
    t \in {AddU32(c, FromNat(j)) : c \in ClockStarts, j \in 0 .. MaxTicks - 1}

\* By how much millis() may advance between two reads in one call.
Ticks(t) == IF TickAllowed(t) THEN {0, 1} ELSE {0}

(***************************************************************************)
(* The registry's operations on buildingDatabase, as functions of the map  *)
(* m: each returns the new map and the call's return value.  t1 and t2     *)
(* are the values of the first and the second millis() read.               *)
(***************************************************************************)
BuildingCard(uid, type, t1, t2) ==
    [uid |-> uid, buildingType |-> type, firstSeen |-> t1, lastSeen |-> t2]

EmptyDb == [u \in {} |-> BuildingCard(<<>>, 0, FromNat(0), FromNat(0))]

hasBuilding(m, uid) == uid \in DOMAIN m

getDatabaseSize(m) == Cardinality(DOMAIN m)

addBuilding_NoEmptyCheck(m, uid, type, t1, t2) ==
    IF uid \in DOMAIN m
    THEN [db |-> [m EXCEPT ![uid].lastSeen = t1], ret |-> FALSE]
    ELSE [db |-> [u \in DOMAIN m \cup {uid} |->
                     IF u = uid THEN BuildingCard(uid, type, t1, t2) ELSE m[u]],
          ret |-> TRUE]

addBuilding_NotStored(m, uid, type, t1, t2) == [db |-> m, ret |-> TRUE]

addBuilding_Overwrite(m, uid, type, t1, t2) ==
    IF Len(uid) = 0
    THEN [db |-> m, ret |-> FALSE]
    ELSE [db |-> [u \in DOMAIN m \cup {uid} |->
                     IF u = uid THEN BuildingCard(uid, type, t1, t2) ELSE m[u]],
          ret |-> uid \notin DOMAIN m]

addBuilding(m, uid, type, t1, t2) ==
    IF Len(uid) = 0
    THEN [db |-> m, ret |-> FALSE]
    ELSE IF uid \in DOMAIN m
    THEN [db |-> [m EXCEPT ![uid].lastSeen = t1], ret |-> FALSE]
    ELSE [db |-> [u \in DOMAIN m \cup {uid} |->
                     IF u = uid THEN BuildingCard(uid, type, t1, t2) ELSE m[u]],
          ret |-> TRUE]

removeBuilding_AlwaysTrue(m, uid) ==
    [db |-> [u \in DOMAIN m \ {uid} |-> m[u]], ret |-> TRUE]

removeBuilding(m, uid) ==
    [db |-> [u \in DOMAIN m \ {uid} |-> m[u]], ret |-> uid \in DOMAIN m]

clearDatabase_Noop(m) == m

clearDatabase(m) == EmptyDb

\* getAllBuildings: "return buildingDatabase; // copy".
getAllBuildings(m) == m

\* getBuilding returns &it->second or nullptr, getBuildingsByType a map of
\* &pair.second: a pointer to the node stored under key u is the set {u},
\* nullptr is {}.
getBuilding(m, uid) == IF uid \in DOMAIN m THEN {uid} ELSE {}

getBuildingsByType(m, type) == {u \in DOMAIN m : m[u].buildingType = type}

\* auto it = find(uid); if (it != end()) it->second.lastSeen = millis();
refreshLastSeen_Skipped(m, uid, t) == m

refreshLastSeen(m, uid, t) ==
    IF uid \in DOMAIN m THEN [m EXCEPT ![uid].lastSeen = t] ELSE m

(***************************************************************************)
(* What the reader can present to a scan cycle: the token's UID bytes and  *)
(* either its NDEF memory or no readable memory.                           *)
(***************************************************************************)
Unreadable == <<>>

TagMemory(type) == <<3, 5, 80, 1, 1, 66, type, 254>> \o Zeros(8)

ReaderUids == {<<>>, <<4, 161>>, <<178>>}

ScanReaderUids == {<<>>, <<4, 161>>}

Tags == [uid : ScanReaderUids, mem : {TagMemory(3), Unreadable}]

Uids == {uidToString(u) : u \in ReaderUids}

ScanUids == {uidToString(u) : u \in ScanReaderUids}

BuildingTypes == {3, 7}

\* scanForCards, "Try to read building type from NDEF data".
ScannedType(tag, junk) ==
    IF tag.mem # Unreadable
    THEN parseNDEFBuildingType(tag.mem, junk)
    ELSE IF Len(tag.uid) > 0 THEN tag.uid[1] % 256 ELSE 0

(***************************************************************************)
(* Inputs of the decoder.                                                  *)
(***************************************************************************)
\* Arbitrary bytes: every concatenation of at most MaxTokens tokens.
RawTokens ==
    {<<0>>, <<1>>, <<3>>, <<254>>, <<255>>, <<66>>, <<42>>, <<16, 1, 1, 66>>}

RawInputs == {Concat(ts) : ts \in SeqsUpTo(RawTokens, MaxTokens)}

\* README "NDEF Support": one short record of type "B" with a one-byte payload.
RoundTripBuffer(v) == <<3, 5, 80, 1, 1, 66, v>>

RoundTripInputs ==
    {Zeros(n) \o RoundTripBuffer(v) \o t :
        n \in 0 .. MaxPad, v \in 0 .. 255, t \in {<<>>, <<254>>}}

\* A message TLV holding one record with a 4-byte payload length.
Encode32(x) == <<x.hi \div 256, x.hi % 256, x.lo \div 256, x.lo % 256>>

WrapLengths ==
    {FromNat(j) : j \in 0 .. MaxWrap}
    \cup {[hi |-> HalfMod - 1, lo |-> HalfMod - j] : j \in 1 .. MaxWrap}
    \cup {[hi |-> 1, lo |-> 0], [hi |-> HalfMod \div 2, lo |-> 0]}

NonShortInputs ==
    {<<3, len, header, typeLen>> \o Encode32(payloadLen) \o tail :
        len \in {4, 6, 7, 8}, header \in {0, 64, 8}, typeLen \in {0, 1},
        payloadLen \in WrapLengths, tail \in SeqsUpTo({0, 66}, MaxTail)}

\* A well-formed message TLV of short records, cut after any number of bytes.
SamplePayload == <<42, 7, 0, 9>>

Payloads ==
    {Prefix(SamplePayload, n) : n \in 0 .. MaxPayload} \cup {<<16, 1, 1, 66, 42>>}

Records ==
    [type : {<<66>>, <<84>>}, id : {<<>>}, payload : Payloads]
    \cup [type : {<<66>>, <<84>>}, id : {<<9>>}, payload : {<<42>>}]

RecordLists == UNION {[1 .. m -> Records] : m \in 1 .. MaxRecords}

EncodeRecord(r, last) ==
    <<16 + (IF last THEN 64 ELSE 0) + (IF r.id # <<>> THEN 8 ELSE 0),
      Len(r.type), Len(r.payload)>>
    \o (IF r.id # <<>> THEN <<Len(r.id)>> ELSE <<>>)
    \o r.type \o r.id \o r.payload

EncodeRecords(rs) ==
    Concat([j \in 1 .. Len(rs) |-> EncodeRecord(rs[j], j = Len(rs))])

EncodeMessage(rs) == <<3, Len(EncodeRecords(rs))>> \o EncodeRecords(rs)

PrefixesOf(rs) ==
    LET message == EncodeMessage(rs)
    IN  {Prefix(message, n) : n \in 0 .. Len(message)}

\* Buffers that are not built from a list of records.
UnframedInputs == RawInputs \cup RoundTripInputs \cup NonShortInputs

(***************************************************************************)
(* Initial state: the registry as its constructor leaves it, the polling   *)
(* actor between two scan cycles, the decoder not started.                 *)
(***************************************************************************)
decVars == <<data, recs, dec, rdr>>

regVars == <<db, deleteMode, onNew, onDelete, now, events, ret, scan>>

vars ==
    <<data, recs, dec, db, deleteMode, onNew, onDelete, now, events, ret, scan, rdr>>

ScanIdle ==
    [pc |-> "idle", uid |-> <<>>, buildingType |-> 0, removedBuildingType |-> 0,
     inserted |-> "none", dangling |-> FALSE, returned |-> FALSE,
     holdsMutex |-> FALSE]

NoCall == [op |-> "none", val |-> FALSE]

\* The polling actor before the dispatch.  pc: idle (between two cycles, or
\* dispatching), select, uid, type, cc, page, decode, halt.  log: the
\* MIFARE_Read calls of the cycle.  detected, selected and halts describe
\* the last cycle until the next one begins.
ReaderIdle ==
    [pc |-> "idle", reader |-> TRUE, detected |-> FALSE, selected |-> FALSE,
     halts |-> 0, uidByte |-> <<>>, uid |-> <<>>, log |-> <<>>, page |-> 0,
     ndefData |-> <<>>, readOk |-> FALSE, buildingType |-> 0]

RegistryInit ==
    /\ db = EmptyDb
    /\ deleteMode = FALSE
    /\ onNew = FALSE
    /\ onDelete = FALSE
    /\ now \in ClockStarts
    /\ events = <<>>
    /\ ret = NoCall
    /\ scan = ScanIdle

(***************************************************************************)
(* The decoder as a state machine: one action per loop iteration.          *)
(***************************************************************************)
DecoderInit ==
    /\ \/ \E d \in UnframedInputs : data = d /\ recs = <<>>
       \/ \E rs \in RecordLists : \E d \in PrefixesOf(rs) : data = d /\ recs = rs
    /\ dec = DecInit
    /\ rdr = ReaderIdle
    /\ RegistryInit

ParseStart ==
    /\ dec.pc = "start"
    /\ dec' = StartStep(data, dec)
    /\ UNCHANGED <<data, recs, rdr>>
    /\ UNCHANGED regVars

ParseTlv ==
    /\ dec.pc = "tlv"
    /\ \E junk \in JunkBytes : dec' = TlvStep(data, dec, junk)
    /\ UNCHANGED <<data, recs, rdr>>
    /\ UNCHANGED regVars

ParseRecord ==
    /\ dec.pc = "record"
    /\ \E junk \in JunkBytes : dec' = RecordStep(data, dec, junk)
    /\ UNCHANGED <<data, recs, rdr>>
    /\ UNCHANGED regVars

ParseFallback ==
    /\ dec.pc = "fallback"
    /\ \E junk \in JunkBytes : dec' = FallbackStep(data, dec, junk)
    /\ UNCHANGED <<data, recs, rdr>>
    /\ UNCHANGED regVars

DecoderNext == ParseStart \/ ParseTlv \/ ParseRecord \/ ParseFallback

SpecDecoder == DecoderInit /\ [][DecoderNext]_vars

(***************************************************************************)
(* Calls of the registry by actors other than the polling actor.  Each     *)
(* call is one critical section of dbMutex, hence one action.              *)
(***************************************************************************)
Called(op, val) == [op |-> op, val |-> val]

\* std::lock_guard<std::mutex> lock(dbMutex) can be constructed: the mutex is
\* free.  Between two actions only the polling actor can be holding it.
MutexFree_Ignored == TRUE

MutexFree == ~scan.holdsMutex

CallAddBuilding(uid, type) ==
    \E d \in Ticks(now) :
        LET t2 == AddU32(now, FromNat(d))
            r == addBuilding(db, uid, type, now, t2)
        IN  /\ Len(uid) = 0 \/ MutexFree  \* an empty uid returns before locking
            /\ d = 0 \/ r.ret          \* millis() is read twice for a new card only
            /\ db' = r.db
            /\ now' = t2
            /\ ret' = Called("addBuilding", r.ret)
            /\ UNCHANGED <<deleteMode, onNew, onDelete, events, scan>>
            /\ UNCHANGED decVars

CallRemoveBuilding(uid) ==
    LET r == removeBuilding(db, uid)
    IN  /\ MutexFree
        /\ db' = r.db
        /\ ret' = Called("removeBuilding", r.ret)
        /\ UNCHANGED <<deleteMode, onNew, onDelete, now, events, scan>>
        /\ UNCHANGED decVars

CallClearDatabase ==
    /\ MutexFree
    /\ db' = clearDatabase(db)
    /\ ret' = Called("clearDatabase", TRUE)
    /\ UNCHANGED <<deleteMode, onNew, onDelete, now, events, scan>>
    /\ UNCHANGED decVars

CallGetAllBuildings ==
    /\ MutexFree
    /\ ret' = Called("getAllBuildings", getAllBuildings(db))
    /\ UNCHANGED <<db, deleteMode, onNew, onDelete, now, events, scan>>
    /\ UNCHANGED decVars

CallGetBuilding(uid) ==
    /\ MutexFree
    /\ ret' = Called("getBuilding", getBuilding(db, uid))
    /\ UNCHANGED <<db, deleteMode, onNew, onDelete, now, events, scan>>
    /\ UNCHANGED decVars

CallGetBuildingsByType(type) ==
    /\ MutexFree
    /\ ret' = Called("getBuildingsByType", getBuildingsByType(db, type))
    /\ UNCHANGED <<db, deleteMode, onNew, onDelete, now, events, scan>>
    /\ UNCHANGED decVars

CallSetDeleteMode(enabled) ==
    /\ deleteMode' = enabled
    /\ UNCHANGED <<db, onNew, onDelete, now, events, ret, scan>>
    /\ UNCHANGED decVars

CallSetOnNewBuildingCallback(callable) ==
    /\ onNew' = callable
    /\ UNCHANGED <<db, deleteMode, onDelete, now, events, ret, scan>>
    /\ UNCHANGED decVars

CallSetOnDeleteBuildingCallback(callable) ==
    /\ onDelete' = callable
    /\ UNCHANGED <<db, deleteMode, onNew, now, events, ret, scan>>
    /\ UNCHANGED decVars

Tick ==
    /\ TickAllowed(now)
    /\ now' = AddU32(now, FromNat(1))
    /\ UNCHANGED <<db, deleteMode, onNew, onDelete, events, ret, scan>>
    /\ UNCHANGED decVars

AddCalls(U) == \E uid \in U, type \in BuildingTypes : CallAddBuilding(uid, type)

RemoveCalls(U) == \E uid \in U : CallRemoveBuilding(uid)

QueryCalls(U) ==
    \/ CallGetAllBuildings
    \/ \E uid \in U : CallGetBuilding(uid)
    \/ \E type \in BuildingTypes : CallGetBuildingsByType(type)

ModeCalls == \E enabled \in BOOLEAN : CallSetDeleteMode(enabled)

CallbackCalls ==
    \E callable \in BOOLEAN :
        CallSetOnNewBuildingCallback(callable) \/ CallSetOnDeleteBuildingCallback(callable)

RegistryNext ==
    \/ AddCalls(Uids)
    \/ RemoveCalls(Uids)
    \/ CallClearDatabase
    \/ QueryCalls(Uids)
    \/ ModeCalls
    \/ CallbackCalls
    \/ Tick

IdleDecoder == data = <<>> /\ recs = <<>> /\ dec = DecInit

RegistryOnlyInit == IdleDecoder /\ rdr = ReaderIdle /\ RegistryInit

SpecRegistry == RegistryOnlyInit /\ [][RegistryNext]_vars

(***************************************************************************)
(* scanForCards, run by the one polling actor.  The reader is its alone,   *)
(* so detecting, selecting, reading, decoding and halting are one action;  *)
(* afterwards every critical section and every handler call is an action   *)
(* of its own, between which the other actors' calls may take place.       *)
(***************************************************************************)
Finish_AlwaysTrue(returned) ==
    [ScanIdle EXCEPT !.returned = TRUE, !.holdsMutex = scan.holdsMutex]

Finish(returned) ==
    [ScanIdle EXCEPT !.returned = returned, !.holdsMutex = scan.holdsMutex]

\* The end of a lock_guard's scope.
Unlock_Forgotten(s) == s

Unlock(s) == [s EXCEPT !.holdsMutex = FALSE]

\* The positions of the polling actor at which a lock_guard is constructed.
NeedsMutex(s) ==
    \/ s.pc \in {"delHas", "delFind", "delRemove", "addHas", "addRefresh"}
    \/ s.pc = "addAdd" /\ Len(s.uid) > 0

\* std::lock_guard<std::mutex> lock(dbMutex) in the polling actor.
ScanLock ==
    /\ NeedsMutex(scan)
    /\ MutexFree
    /\ scan' = [scan EXCEPT !.holdsMutex = TRUE]
    /\ UNCHANGED <<db, deleteMode, onNew, onDelete, now, events, ret>>
    /\ UNCHANGED decVars

NewBuildingEvent_NoKind(type, uid) == [ev |-> "new", type |-> 0, uid |-> uid]

NewBuildingEvent(type, uid) == [ev |-> "new", type |-> type, uid |-> uid]

DeleteBuildingEvent_ScannedKind(type, uid) ==
    [ev |-> "delete", type |-> scan.buildingType, uid |-> uid]

DeleteBuildingEvent(type, uid) == [ev |-> "delete", type |-> type, uid |-> uid]

\* No reader, no new card present, or the card cannot be selected.
\* `log` is the record of handler invocations the cycle starts with.
ScanNothingFrom(log) ==
    /\ scan.pc = "idle"
    /\ scan' = Finish(FALSE)
    /\ events' = log
    /\ UNCHANGED <<db, deleteMode, onNew, onDelete, now, ret>>
    /\ UNCHANGED decVars

ScanNothing == ScanNothingFrom(<<>>)

ScanCardFrom(tags, log) ==
    /\ scan.pc = "idle"
    /\ \E tag \in tags, junk \in JunkBytes :
          /\ ScannedType(tag, junk) # Hang
          /\ scan' = [Finish(FALSE) EXCEPT
                         !.pc = IF deleteMode THEN "delHas" ELSE "addHas",
                         !.uid = uidToString(tag.uid),
                         !.buildingType = ScannedType(tag, junk)]
    /\ events' = log
    /\ UNCHANGED <<db, deleteMode, onNew, onDelete, now, ret>>
    /\ UNCHANGED decVars

ScanCard == ScanCardFrom(Tags, <<>>)

\* Delete mode: if (hasBuilding(uid))
ScanDelHas ==
    /\ scan.pc = "delHas"
    /\ scan.holdsMutex
    /\ scan' = Unlock(IF hasBuilding(db, scan.uid)
                      THEN [scan EXCEPT !.pc = "delFind"]
                      ELSE Finish(FALSE))
    /\ UNCHANGED <<db, deleteMode, onNew, onDelete, now, events, ret>>
    /\ UNCHANGED decVars

\* removedBuildingType = buildingDatabase.find(uid)->second.buildingType;
\* dereferencing end() is undefined: any byte may come back.
ScanDelFind ==
    /\ scan.pc = "delFind"
    /\ scan.holdsMutex
    /\ IF scan.uid \in DOMAIN db
       THEN scan' = Unlock([scan EXCEPT
                               !.pc = "delRemove",
                               !.removedBuildingType = db[scan.uid].buildingType])
       ELSE \E junk \in JunkBytes :
                scan' = Unlock([scan EXCEPT !.pc = "delRemove", !.dangling = TRUE,
                                            !.removedBuildingType = junk])
    /\ UNCHANGED <<db, deleteMode, onNew, onDelete, now, events, ret>>
    /\ UNCHANGED decVars

\* bool removed = removeBuilding(uid); if (removed) ...
ScanDelRemove ==
    /\ scan.pc = "delRemove"
    /\ scan.holdsMutex
    /\ LET r == removeBuilding(db, scan.uid)
       IN  /\ db' = r.db
           /\ scan' = Unlock(IF r.ret THEN [scan EXCEPT !.pc = "delCallback"]
                             ELSE Finish(FALSE))
    /\ UNCHANGED <<deleteMode, onNew, onDelete, now, events, ret>>
    /\ UNCHANGED decVars

\* if (onDeleteBuildingCallback) onDeleteBuildingCallback(...); return true;
ScanDelCallback ==
    /\ scan.pc = "delCallback"
    /\ onDelete => MutexFree     \* the handler may call a locking operation
    /\ events' = IF onDelete
                 THEN Append(events, DeleteBuildingEvent(scan.removedBuildingType, scan.uid))
                 ELSE events
    /\ scan' = Finish(TRUE)
    /\ UNCHANGED <<db, deleteMode, onNew, onDelete, now, ret>>
    /\ UNCHANGED decVars

\* Add mode: if (!hasBuilding(uid))
ScanAddHas ==
    /\ scan.pc = "addHas"
    /\ scan.holdsMutex
    /\ scan' = Unlock([scan EXCEPT !.pc = IF hasBuilding(db, scan.uid)
                                          THEN "addRefresh" ELSE "addAdd"])
    /\ UNCHANGED <<db, deleteMode, onNew, onDelete, now, events, ret>>
    /\ UNCHANGED decVars

\* addBuilding(uid, buildingType);  (the result is not looked at)
ScanAddAdd ==
    /\ scan.pc = "addAdd"
    /\ scan.holdsMutex \/ Len(scan.uid) = 0
    /\ \E d \in Ticks(now) :
          LET t2 == AddU32(now, FromNat(d))
              r == addBuilding(db, scan.uid, scan.buildingType, now, t2)
          IN  /\ d = 0 \/ r.ret
              /\ db' = r.db
              /\ now' = t2
              /\ scan' = Unlock([scan EXCEPT
                                     !.pc = "addCallback",
                                     !.inserted = IF r.ret THEN "true" ELSE "false"])
    /\ UNCHANGED <<deleteMode, onNew, onDelete, events, ret>>
    /\ UNCHANGED decVars

\* if (onNewBuildingCallback) onNewBuildingCallback(buildingType, uid); return true;
ScanAddCallback ==
    /\ scan.pc = "addCallback"
    /\ onNew => MutexFree        \* the handler may call a locking operation
    /\ events' = IF onNew
                 THEN Append(events, NewBuildingEvent(scan.buildingType, scan.uid))
                 ELSE events
    /\ scan' = Finish(TRUE)
    /\ UNCHANGED <<db, deleteMode, onNew, onDelete, now, ret>>
    /\ UNCHANGED decVars

\* "Update last seen timestamp", then return false.
ScanAddRefresh ==
    /\ scan.pc = "addRefresh"
    /\ scan.holdsMutex
    /\ db' = refreshLastSeen(db, scan.uid, now)
    /\ scan' = Unlock(Finish(FALSE))
    /\ UNCHANGED <<deleteMode, onNew, onDelete, now, events, ret>>
    /\ UNCHANGED decVars

ScanNext ==
    \/ ScanNothing
    \/ ScanCard
    \/ ScanLock
    \/ ScanDelHas
    \/ ScanDelFind
    \/ ScanDelRemove
    \/ ScanDelCallback
    \/ ScanAddHas
    \/ ScanAddAdd
    \/ ScanAddCallback
    \/ ScanAddRefresh

SystemNext ==
    \/ ScanNext
    \/ AddCalls(ScanUids)
    \/ RemoveCalls(ScanUids)
    \/ CallClearDatabase
    \/ ModeCalls
    \/ CallbackCalls
    \/ Tick

SpecScan == RegistryOnlyInit /\ [][SystemNext]_vars

(***************************************************************************)
(* scanForCards up to the dispatch, one action per call of the reader.     *)
(* What the reader answers is an input of each step.                       *)
(***************************************************************************)
CCPage == 3

CCMagic == 225

FirstDataPage == 4

EndPage == 20

PagesPerRead == 4

BlockSize == 16

\* The 16 data bytes MIFARE_Read can deliver for the capability container.
CCBlocks == {<<CCMagic>> \o Zeros(BlockSize - 1), Zeros(BlockSize)}

\* A block whose record makes `p += payloadLen` return to the record's start.
HangBlock == <<3, 6, 0, 0, 255, 255, 255, 250, 254>> \o Zeros(7)

\* ... and for a data block: a "B" record and a terminator, padding only,
\* a malformed record and a terminator.
DataBlocks == {TagMemory(3), Zeros(BlockSize), HangBlock}

\* Identifiers for uidToString: every sequence of at most MaxUidLen bytes.
UidBytes == {0, 4, 10, 15, 16, 161, 171, 178, 255}

UidInputs == SeqsUpTo(UidBytes, MaxUidLen)

\* The locals of a cycle that begins.
CycleStart == [ReaderIdle EXCEPT !.reader = rdr.reader]

\* The locals once the cycle has left the reader: what the cycle did stays
\* visible until the next cycle begins.
CycleEnd(r) ==
    [CycleStart EXCEPT !.detected = r.detected, !.selected = r.selected,
                       !.halts = r.halts]

\* mfrc522->PICC_HaltA();
PICC_HaltA_Skipped(r) == r

PICC_HaltA(r) == [r EXCEPT !.halts = @ + 1]

\* status = mfrc522->MIFARE_Read(page, buffer.data(), &size);
MIFARE_Read(r, page, ok, block) ==
    [r EXCEPT !.log = Append(@, [page |-> page, ok |-> ok, bytes |-> block])]

\* for (i < 16) if (buffer[i] == 0xFE)
HasTerminator_Never(block) == FALSE

HasTerminator(block) == \E j \in 1 .. BlockSize : block[j] = TerminatorTlv

\* return !ndefData.empty(); / return false;
ReadReturns(r, ndefData) ==
    [r EXCEPT !.pc = "decode", !.ndefData = ndefData, !.readOk = ndefData # <<>>]

\* if (!mfrc522) return false;
ReaderNull ==
    /\ rdr.pc = "idle"
    /\ scan.pc = "idle"
    /\ ~rdr.reader
    /\ rdr' = CycleStart
    /\ scan' = Finish(FALSE)
    /\ events' = <<>>
    /\ UNCHANGED <<data, recs, dec, db, deleteMode, onNew, onDelete, now, ret>>

\* if (!mfrc522->PICC_IsNewCardPresent()) return false;
ReaderDetect ==
    /\ rdr.pc = "idle"
    /\ scan.pc = "idle"
    /\ rdr.reader
    /\ \E present \in BOOLEAN :
          rdr' = IF present
                 THEN [CycleStart EXCEPT !.pc = "select", !.detected = TRUE]
                 ELSE CycleStart
    /\ scan' = Finish(FALSE)
    /\ events' = <<>>
    /\ UNCHANGED <<data, recs, dec, db, deleteMode, onNew, onDelete, now, ret>>

\* if (!mfrc522->PICC_ReadCardSerial()) return false;
ReaderSelect ==
    /\ rdr.pc = "select"
    /\ \/ rdr' = CycleEnd(rdr)
       \/ \E uid \in ScanReaderUids :
             rdr' = [rdr EXCEPT !.pc = "uid", !.selected = TRUE, !.uidByte = uid]
    /\ UNCHANGED <<data, recs, dec>>
    /\ UNCHANGED regVars

\* String uid = getCardUID();
GetCardUID ==
    /\ rdr.pc = "uid"
    /\ rdr' = [rdr EXCEPT !.pc = "type", !.uid = uidToString(rdr.uidByte)]
    /\ UNCHANGED <<data, recs, dec>>
    /\ UNCHANGED regVars

\* readNDEFData: if (piccType != MFRC522::PICC_TYPE_MIFARE_UL) return false;
ReadNdefType ==
    /\ rdr.pc = "type"
    /\ \E ultralight \in BOOLEAN :
          rdr' = IF ultralight
                 THEN [rdr EXCEPT !.pc = "cc"]
                 ELSE [rdr EXCEPT !.pc = "decode", !.readOk = FALSE]
    /\ UNCHANGED <<data, recs, dec>>
    /\ UNCHANGED regVars

\* readNDEFData: the capability container at page 3 and its magic number.
ReadNdefCC ==
    /\ rdr.pc = "cc"
    /\ \/ rdr' = [MIFARE_Read(rdr, CCPage, FALSE, <<>>) EXCEPT
                     !.pc = "decode", !.readOk = FALSE]
       \/ \E block \in CCBlocks :
             rdr' = IF block[1] # CCMagic
                    THEN [MIFARE_Read(rdr, CCPage, TRUE, block) EXCEPT
                             !.pc = "decode", !.readOk = FALSE]
                    ELSE [MIFARE_Read(rdr, CCPage, TRUE, block) EXCEPT
                             !.pc = "page", !.page = FirstDataPage,
                             !.ndefData = <<>>]
    /\ UNCHANGED <<data, recs, dec>>
    /\ UNCHANGED regVars

\* readNDEFData: one iteration of for (page = 4; page < 20; page += 4).
ReadNdefPage ==
    /\ rdr.pc = "page"
    /\ rdr.page < EndPage
    /\ \/ rdr' = ReadReturns(MIFARE_Read(rdr, rdr.page, FALSE, <<>>), rdr.ndefData)
       \/ \E block \in DataBlocks :
             LET r == MIFARE_Read(rdr, rdr.page, TRUE, block)
                 ndefData == rdr.ndefData \o block
             IN  rdr' = IF HasTerminator(block)
                           \/ ~(rdr.page + PagesPerRead < EndPage)
                        THEN ReadReturns(r, ndefData)
                        ELSE [r EXCEPT !.page = @ + PagesPerRead,
                                       !.ndefData = ndefData]
    /\ UNCHANGED <<data, recs, dec>>
    /\ UNCHANGED regVars

\* buildingType = parseNDEFBuildingType(ndefData), or the first UID byte.
\* A decoder that does not return leaves the cycle here for ever.
ScanDecode ==
    /\ rdr.pc = "decode"
    /\ \E junk \in JunkBytes :
          LET tag == [uid |-> rdr.uidByte,
                      mem |-> IF rdr.readOk THEN rdr.ndefData ELSE Unreadable]
          IN  /\ ScannedType(tag, junk) # Hang
              /\ rdr' = [rdr EXCEPT !.pc = "halt",
                                    !.buildingType = ScannedType(tag, junk)]
    /\ UNCHANGED <<data, recs, dec>>
    /\ UNCHANGED regVars

\* mfrc522->PICC_HaltA(); if (deleteMode) ... else ...
ScanHalt ==
    /\ rdr.pc = "halt"
    /\ rdr' = CycleEnd(PICC_HaltA(rdr))
    /\ scan' = [scan EXCEPT !.pc = IF deleteMode THEN "delHas" ELSE "addHas",
                            !.uid = rdr.uid,
                            !.buildingType = rdr.buildingType]
    /\ UNCHANGED <<data, recs, dec, db, deleteMode, onNew, onDelete, now, events, ret>>

ReaderNext ==
    \/ ReaderNull
    \/ ReaderDetect
    \/ ReaderSelect
    \/ GetCardUID
    \/ ReadNdefType
    \/ ReadNdefCC
    \/ ReadNdefPage
    \/ ScanDecode
    \/ ScanHalt

DispatchNext ==
    \/ ScanLock
    \/ ScanDelHas
    \/ ScanDelFind
    \/ ScanDelRemove
    \/ ScanDelCallback
    \/ ScanAddHas
    \/ ScanAddAdd
    \/ ScanAddCallback
    \/ ScanAddRefresh

ReaderSystemNext ==
    \/ ReaderNext
    \/ DispatchNext
    \/ CallClearDatabase
    \/ ModeCalls
    \/ CallbackCalls

ReaderInit ==
    /\ IdleDecoder
    /\ RegistryInit
    /\ \E reader \in BOOLEAN : rdr = [ReaderIdle EXCEPT !.reader = reader]

SpecReader == ReaderInit /\ [][ReaderSystemNext]_vars

\* uidToString applied to every identifier of at most MaxUidLen bytes.
UidInit ==
    /\ IdleDecoder
    /\ RegistryInit
    /\ \E uid \in UidInputs :
          rdr = [ReaderIdle EXCEPT !.pc = "uid", !.detected = TRUE,
                                   !.selected = TRUE, !.uidByte = uid]

SpecUid == UidInit /\ [][GetCardUID]_vars

(***************************************************************************)
(* Runs of scan cycles of the polling actor and setDeleteMode calls only,  *)
(* both handlers registered beforehand, tokens with a non-empty UID.  The  *)
(* handler invocations of all cycles are kept, MaxEvents of them at most.  *)
(***************************************************************************)
LifecycleTags == [uid : ReaderUids \ {<<>>}, mem : {TagMemory(3), Unreadable}]

LifecycleUids == {uidToString(tag.uid) : tag \in LifecycleTags}

LifecycleScanNothing == ScanNothingFrom(events)

LifecycleScanCard ==
    /\ Len(events) < MaxEvents
    /\ ScanCardFrom(LifecycleTags, events)

LifecycleNext ==
    \/ LifecycleScanNothing
    \/ LifecycleScanCard
    \/ DispatchNext
    \/ ModeCalls

LifecycleInit ==
    /\ IdleDecoder
    /\ rdr = ReaderIdle
    /\ db = EmptyDb
    /\ deleteMode = FALSE
    /\ onNew = TRUE
    /\ onDelete = TRUE
    /\ now \in ClockStarts
    /\ events = <<>>
    /\ ret = NoCall
    /\ scan = ScanIdle

SpecLifecycle == LifecycleInit /\ [][LifecycleNext]_vars

(***************************************************************************)
(* The older parseNDEFBuildingType of src/src/NFCBuildingRegistry.cpp, as  *)
(* a state machine: one action per iteration of its two loops.  Its locals *)
(* are int; `dec` holds them (pos, ndefLength, recordPos).                 *)
(***************************************************************************)
LegacyInit ==
    [pc |-> "start", pos |-> 0, ndefLength |-> 0, recordPos |-> 0,
     result |-> 0, reads |-> {}]

LegacyReturn(s, value, reads) ==
    [s EXCEPT !.pc = "done", !.result = value, !.reads = reads]

\* if (length < 3) return 0;  int pos = 0;
LegacyStartStep(d, s) ==
    IF Len(d) < 3
    THEN LegacyReturn(s, 0, {})
    ELSE [s EXCEPT !.pc = "tlv", !.pos = 0, !.reads = {}]

\* One iteration of while (pos < length - 1).
LegacyTlvStep(d, s, junk) ==
    LET pos == s.pos
        length == Len(d)
    IN  IF ~(pos < length - 1)
        THEN LegacyReturn(s, 0, {})
        ELSE IF At(d, pos, junk) # NdefMessageTlv
        THEN [s EXCEPT !.pos = pos + 1, !.reads = {pos}]
        ELSE
        LET ndefLength == At(d, pos + 1, junk)
        IN  IF pos + 2 + ndefLength > length
            THEN LegacyReturn(s, 0, {pos, pos + 1})
            ELSE [s EXCEPT !.pc = "record", !.pos = pos + 2,
                           !.ndefLength = ndefLength, !.recordPos = 0,
                           !.reads = {pos, pos + 1}]

\* recordType += (char)data[...]: appending the character 0 adds nothing.
LegacyRecordType(d, from, typeLength, junk) ==
    SelectSeq([i \in 1 .. typeLength |-> At(d, from + i - 1, junk)],
              LAMBDA c : c # 0)

\* One iteration of while (recordPos < ndefLength).
LegacyRecordStep(d, s, junk) ==
    LET pos == s.pos
        r0 == s.recordPos
    IN  IF ~(r0 < s.ndefLength)
        THEN LegacyReturn(s, 0, {})
        ELSE
        LET flags == At(d, pos + r0, junk)
        IN  IF ~IsShortRecord(flags)
            THEN LegacyReturn(s, 0, {pos + r0})
            ELSE
            LET typeLength == At(d, pos + r0 + 1, junk)
                payloadLength == At(d, pos + r0 + 2, junk)
                typePos == pos + r0 + 3
                recordType == LegacyRecordType(d, typePos, typeLength, junk)
                r4 == r0 + 3 + typeLength
                rd == {pos + r0, pos + r0 + 1, pos + r0 + 2}
                          \cup {typePos + i : i \in 0 .. typeLength - 1}
            IN  IF recordType = <<MarkerB>> /\ payloadLength >= 1
                THEN LegacyReturn(s, At(d, pos + r4, junk), rd \cup {pos + r4})
                ELSE [s EXCEPT !.recordPos = r4 + payloadLength, !.reads = rd]

LegacyParseStart ==
    /\ dec.pc = "start"
    /\ dec' = LegacyStartStep(data, dec)
    /\ UNCHANGED <<data, recs, rdr>>
    /\ UNCHANGED regVars

LegacyParseTlv ==
    /\ dec.pc = "tlv"
    /\ \E junk \in JunkBytes : dec' = LegacyTlvStep(data, dec, junk)
    /\ UNCHANGED <<data, recs, rdr>>
    /\ UNCHANGED regVars

LegacyParseRecord ==
    /\ dec.pc = "record"
    /\ \E junk \in JunkBytes : dec' = LegacyRecordStep(data, dec, junk)
    /\ UNCHANGED <<data, recs, rdr>>
    /\ UNCHANGED regVars

LegacyNext == LegacyParseStart \/ LegacyParseTlv \/ LegacyParseRecord

LegacyDecoderInit ==
    /\ \/ \E d \in UnframedInputs : data = d /\ recs = <<>>
       \/ \E rs \in RecordLists : \E d \in PrefixesOf(rs) : data = d /\ recs = rs
    /\ dec = LegacyInit
    /\ rdr = ReaderIdle
    /\ RegistryInit

SpecLegacy == LegacyDecoderInit /\ [][LegacyNext]_vars

(***************************************************************************)
(* Claims about the decoder (checked under SpecDecoder).                   *)
(***************************************************************************)
Done == dec.pc = "done"

\* C1: the decoder never reads an element of its input at an index >= N,
\* also for non-short records whose 4-byte payload length is any 32-bit value.
C1_NoReadPastEnd == \A idx \in dec.reads : idx < Len(data)

\* C2: every iteration of the TLV loop (cursor i) and of the record loop
\* (cursor p) strictly advances its cursor or leaves the loop.
C2_CursorAdvances ==
    [][/\ (dec.pc = "tlv" /\ dec'.pc = "tlv") => dec'.i > dec.i
       /\ (dec.pc = "record" /\ dec'.pc = "record") => dec'.p > dec.p]_vars

LeadingZeros(d) ==
    CHOOSE n \in 0 .. Len(d) :
        /\ \A j \in 1 .. n : d[j] = 0
        /\ n = Len(d) \/ d[n + 1] # 0

IsRoundTripInput(d) ==
    LET n == LeadingZeros(d)
    IN  /\ Len(d) \in {n + 7, n + 8}
        /\ SubSeq(d, n + 1, n + 6) = <<3, 5, 80, 1, 1, 66>>
        /\ Len(d) = n + 8 => d[n + 8] = 254

\* C3: [0x03,0x05,0x50,0x01,0x01,'B',v] decodes to v for every v in 0..255,
\* also behind any number of 0x00 NULL TLVs and/or before a 0xFE terminator.
C3_RoundTrip ==
    (Done /\ IsRoundTripInput(data)) => dec.result = data[LeadingZeros(data) + 7]

C3_Witness ==
    /\ Done
    /\ data = <<0, 3, 5, 80, 1, 1, 66, 42, 254>>
    /\ dec.result = 42
    /\ dec.site = "match"

\* The first record of type "B" in rs (0: none) and the number of bytes of
\* the encoded message up to the end of that record's declared payload.
FirstMarker(rs) ==
    IF \E j \in 1 .. Len(rs) : rs[j].type = <<66>>
    THEN CHOOSE j \in 1 .. Len(rs) :
            /\ rs[j].type = <<66>>
            /\ \A h \in 1 .. j - 1 : rs[h].type # <<66>>
    ELSE 0

MarkerRecordEnd(rs) == 2 + Len(EncodeRecords(SubSeq(rs, 1, FirstMarker(rs))))

HoldsWholeMarkerRecord ==
    FirstMarker(recs) # 0 /\ Len(data) >= MarkerRecordEnd(recs)

\* The raw pattern [SR flag][1][>= 1]['B'][byte] at C++ index k of d.
RawPatternAt(d, k) ==
    /\ k + 4 < Len(d)
    /\ (d[k + 1] \div 16) % 2 = 1
    /\ d[k + 2] = 1
    /\ d[k + 3] >= 1
    /\ d[k + 4] = 66

RawPatternIndexes(d) == {k \in 0 .. Len(d) : RawPatternAt(d, k)}

FirstRawPattern(d) ==
    CHOOSE k \in RawPatternIndexes(d) : \A h \in RawPatternIndexes(d) : k <= h

ProperPrefixOfRoundTrip(d) ==
    Len(d) < 7 /\ d = Prefix(<<3, 5, 80, 1, 1, 66>>, Len(d))

\* C4 as stated: a prefix of a valid buffer of short records decodes to 0
\* unless it holds the whole matching 'B' record, declared payload included;
\* every proper prefix of the round-trip buffer decodes to 0.
C4_TruncatedIsNotFound ==
    /\ (Done /\ recs # <<>> /\ dec.result # 0) => HoldsWholeMarkerRecord
    /\ (Done /\ ProperPrefixOfRoundTrip(data)) => dec.result = 0

\* C4 as amended: ... unless it holds the whole matching 'B' record or, at
\* some index, the raw pattern [SR flag][1][>= 1]['B'] and one more byte.
C4_TruncatedIsNotFoundOrRaw ==
    /\ (Done /\ recs # <<>> /\ dec.result # 0)
           => (HoldsWholeMarkerRecord \/ RawPatternIndexes(data) # {})
    /\ (Done /\ ProperPrefixOfRoundTrip(data)) => dec.result = 0

C4_Witness ==
    /\ Done
    /\ recs # <<>>
    /\ Len(data) < Len(EncodeMessage(recs))
    /\ dec.result # 0
    /\ ~HoldsWholeMarkerRecord
    /\ dec.site = "fallback"

OthersUnchanged(uid) ==
    \A u \in DOMAIN db \ {uid} : u \in DOMAIN db' /\ db'[u] = db[u]

\* C6: add(id, k) of a non-empty id that is not registered returns true;
\* afterwards the id exists with kind k and firstSeen = lastSeen = the time
\* of the call, the size has grown by exactly 1, every other Card is unchanged.
C6_AddInserts ==
    [][\A uid \in Uids, type \in BuildingTypes :
          (CallAddBuilding(uid, type) /\ Len(uid) > 0 /\ ~hasBuilding(db, uid))
              => /\ ret'.val
                 /\ hasBuilding(db', uid)
                 /\ db'[uid].buildingType = type
                 /\ db'[uid].firstSeen = now
                 /\ db'[uid].lastSeen = db'[uid].firstSeen
                 /\ getDatabaseSize(db') = getDatabaseSize(db) + 1
                 /\ OthersUnchanged(uid)]_vars

\* C7: add(id, k2) returns false exactly when id is empty or registered; for
\* an empty id nothing in the registry changes; for a registered id the set
\* of ids, the Card's kind and firstSeen stay and only its lastSeen is set to
\* the current time.
C7_AddRejects ==
    [][\A uid \in Uids, type \in BuildingTypes :
          CallAddBuilding(uid, type)
              => /\ ~ret'.val <=> (Len(uid) = 0 \/ hasBuilding(db, uid))
                 /\ Len(uid) = 0 => db' = db
                 /\ hasBuilding(db, uid)
                        => /\ DOMAIN db' = DOMAIN db
                           /\ db'[uid] = [db[uid] EXCEPT !.lastSeen = now]
                           /\ OthersUnchanged(uid)]_vars

C7_Witness ==
    /\ ret = Called("addBuilding", FALSE)
    /\ getDatabaseSize(db) = 2
    /\ \E u \in DOMAIN db :
          /\ db[u].lastSeen = now
          /\ db[u].lastSeen = AddU32(db[u].firstSeen, FromNat(2))
          /\ db[u].buildingType = 3

\* C8: remove(id) returns true iff id was registered when the call took
\* effect; afterwards id does not exist, the size is 1 less when true was
\* returned and unchanged otherwise, and all other Cards are unchanged.
C8_RemoveErases ==
    [][\A uid \in Uids :
          CallRemoveBuilding(uid)
              => /\ ret'.val <=> hasBuilding(db, uid)
                 /\ ~hasBuilding(db', uid)
                 /\ getDatabaseSize(db') =
                        getDatabaseSize(db) - (IF ret'.val THEN 1 ELSE 0)
                 /\ OthersUnchanged(uid)]_vars

C8_Witness ==
    /\ ret = Called("removeBuilding", TRUE)
    /\ getDatabaseSize(db) = 1
    /\ \E u \in DOMAIN db : db[u].firstSeen # now

\* C9: with a RemovedCard handler registered, every call of remove(id) on a
\* present id fires the handler exactly once, on an absent id zero times.
C9_RemoveFiresHandler ==
    [][\A uid \in Uids :
          (CallRemoveBuilding(uid) /\ onDelete)
              => Len(events') =
                     Len(events) + (IF hasBuilding(db, uid) THEN 1 ELSE 0)]_vars

(***************************************************************************)
(* Claims about the scan cycle (checked under SpecScan).                   *)
(***************************************************************************)
\* C10: in every scan cycle, for every identifier the reader can deliver and
\* under every interleaving with other actors calling add, the NewCard
\* handler is invoked only if the cycle's add returned true, and exactly
\* once in that case.
C10_NewCardOnlyWhenInserted ==
    [][/\ (/\ Len(events') > Len(events)
           /\ events'[Len(events')].ev = "new") => scan.inserted = "true"
       /\ (ScanAddCallback /\ onNew /\ scan.inserted = "true")
              => Len(events') = Len(events) + 1]_vars

\* C11: re-detecting, in Add mode, an id that is registered fires no handler,
\* leaves the size, the Card's kind (whatever kind was decoded) and firstSeen
\* unchanged, sets its lastSeen to the current time, and scanForCards
\* returns false.
C11_RefreshOnly ==
    [][ScanAddRefresh
          => /\ events' = <<>>
             /\ getDatabaseSize(db') = getDatabaseSize(db)
             /\ hasBuilding(db, scan.uid)
                    => db'[scan.uid] = [db[scan.uid] EXCEPT !.lastSeen = now]
             /\ OthersUnchanged(scan.uid)
             /\ scan'.pc = "idle"
             /\ ~scan'.returned]_vars

C11_Witness ==
    /\ scan.pc = "idle"
    /\ ~scan.returned
    /\ events = <<>>
    /\ ret = NoCall
    /\ \E u \in DOMAIN db :
          /\ db[u].lastSeen = now
          /\ db[u].lastSeen = AddU32(db[u].firstSeen, FromNat(2))

\* C12: whenever the NewCard or the RemovedCard handler is invoked, the
\* invoking actor does not hold the registry lock, so a handler that calls a
\* locking operation (getDatabaseSize) on the same thread is not blocked.
C12_HandlerRunsUnlocked ==
    scan.pc \in {"addCallback", "delCallback"} => MutexFree

C12_Witness ==
    /\ scan.pc = "idle"
    /\ MutexFree
    /\ Len(events) = 1
    /\ events[1].ev = "delete"
    /\ onNew

\* C13: in a run in which only the polling actor mutates the registry and
\* identifiers are non-empty, when a NewCard(kind, id) handler runs id exists
\* with that kind and is counted by the size; when a RemovedCard(kind, id)
\* handler runs id does not exist.
C13_HandlerSeesCommitted ==
    [][(ret = NoCall /\ Len(events') > Len(events))
          => LET e == events'[Len(events')]
             IN  Len(e.uid) > 0
                    => IF e.ev = "new"
                       THEN /\ hasBuilding(db, e.uid)
                            /\ db[e.uid].buildingType = e.type
                            /\ getDatabaseSize(db) >= 1
                       ELSE ~hasBuilding(db, e.uid)]_vars

C13_Witness ==
    /\ ret = NoCall
    /\ scan.pc = "idle"
    /\ Len(events) = 1
    /\ events[1].ev = "new"
    /\ Len(events[1].uid) > 0
    /\ hasBuilding(db, events[1].uid)
    /\ db[events[1].uid].buildingType = events[1].type

(***************************************************************************)
(* Claims about queries (checked under SpecRegistry).                      *)
(***************************************************************************)
\* C14: every snapshot (getAllBuildings) equals the registry content at an
\* instant between two complete operations and never contains a Card with
\* firstSeen > lastSeen, with an empty id, or one that is partly constructed.
C14_SnapshotIsolation ==
    [][CallGetAllBuildings
          => /\ ret'.val = db
             /\ \A u \in DOMAIN ret'.val :
                   /\ ret'.val[u].uid = u
                   /\ Len(u) > 0
                   /\ ret'.val[u].buildingType \in 0 .. 255
                   /\ ~GtU32(ret'.val[u].firstSeen, ret'.val[u].lastSeen)]_vars

(***************************************************************************)
(* Claims about interleavings (checked under SpecScan).                    *)
(***************************************************************************)
\* C15: under any interleaving, every add, remove and clear takes effect at
\* one instant: its returned boolean and the resulting set of ids are those
\* of the sequential operation applied to the map as it is at that instant;
\* and at most one actor at a time is inside a section on the map: another
\* actor changes the map only while the polling actor is outside its
\* sections, the polling actor only inside one.
C15_Linearizable ==
    [][/\ \A uid \in ScanUids, type \in BuildingTypes :
             CallAddBuilding(uid, type)
                 => /\ ret'.val <=> (Len(uid) > 0 /\ uid \notin DOMAIN db)
                    /\ DOMAIN db' =
                           DOMAIN db \cup (IF Len(uid) > 0 THEN {uid} ELSE {})
       /\ \A uid \in ScanUids :
             CallRemoveBuilding(uid)
                 => /\ ret'.val <=> uid \in DOMAIN db
                    /\ DOMAIN db' = DOMAIN db \ {uid}
       /\ CallClearDatabase => DOMAIN db' = {}
       /\ (db' # db /\ scan' = scan) => ~scan.holdsMutex
       /\ (db' # db /\ scan' # scan) => scan.holdsMutex]_vars

C15_Witness ==
    /\ scan.pc = "addAdd"
    /\ Len(scan.uid) > 0
    /\ ret = Called("addBuilding", TRUE)
    /\ hasBuilding(db, scan.uid)

\* C16: what getBuilding and getBuildingsByType hand out stays valid and
\* unchanged when another actor afterwards removes, clears or refreshes the
\* Cards: a returned value never refers to a map entry that has been erased.
\* (Checked under SpecRegistry: ret is the result the caller still holds.)
C16_QueriesReturnCopies ==
    [][ret.op \in {"getBuilding", "getBuildingsByType"}
          => \A u \in ret.val : u \in DOMAIN db' /\ db'[u] = db[u]]_vars

(***************************************************************************)
(* Invariants of the registry (checked under SpecScan).                    *)
(***************************************************************************)
\* C17: in every reachable state every registered Card has
\* firstSeen <= lastSeen, both being values of the unsigned 32-bit millis().
C17_FirstSeenNotAfterLastSeen ==
    \A u \in DOMAIN db : ~GtU32(db[u].firstSeen, db[u].lastSeen)

\* C18: in every reachable state the registry holds at most one Card per id,
\* no registered Card has an empty id, each Card's id field equals the key it
\* is stored under, and the size equals the number of distinct registered ids.
C18_KeysWellFormed ==
    /\ \A u \in DOMAIN db : Len(u) > 0 /\ db[u].uid = u
    /\ getDatabaseSize(db) = Cardinality({db[u].uid : u \in DOMAIN db})

C18_Witness ==
    /\ getDatabaseSize(db) = 1
    /\ scan.pc = "idle"
    /\ Len(events) = 1
    /\ events[1].ev = "new"
    /\ events[1].uid = <<>>

(***************************************************************************)
(* Claims about the two modes of the scan cycle (checked under SpecScan).  *)
(***************************************************************************)
\* C19: in Add mode a scan cycle that detects a non-empty id that is not
\* registered, decoded to kind k, inserts exactly one Card (id, k), increases
\* the size by 1 and fires NewCard(k, id) exactly once; from the empty
\* registry the token 04A1 of kind 3 gives size 1 and one NewCard(3, "04A1").
C19_AddModeInserts ==
    [][/\ (ScanAddAdd /\ Len(scan.uid) > 0 /\ ~hasBuilding(db, scan.uid))
              => /\ hasBuilding(db', scan.uid)
                 /\ db'[scan.uid].uid = scan.uid
                 /\ db'[scan.uid].buildingType = scan.buildingType
                 /\ getDatabaseSize(db') = getDatabaseSize(db) + 1
                 /\ OthersUnchanged(scan.uid)
                 /\ scan'.inserted = "true"
       /\ (ScanAddCallback /\ scan.inserted = "true" /\ onNew)
              => /\ events' = <<[ev |-> "new", type |-> scan.buildingType,
                                uid |-> scan.uid]>>
                 /\ scan'.returned]_vars

C19_Witness ==
    /\ ret = NoCall
    /\ scan.pc = "idle"
    /\ scan.returned
    /\ getDatabaseSize(db) = 1
    /\ hasBuilding(db, <<"0", "4", "A", "1">>)
    /\ db[<<"0", "4", "A", "1">>].buildingType = 3
    /\ events = <<[ev |-> "new", type |-> 3, uid |-> <<"0", "4", "A", "1">>]>>

\* C20: in Delete mode a scan cycle on a registered id removes that Card,
\* fires RemovedCard(kind, id) exactly once with the kind stored in the
\* removed Card and reports a mutation; on an unregistered id it changes
\* nothing, fires no handler and reports no mutation.
C20_DeleteModeRemoves ==
    [][/\ (ScanDelHas /\ ~hasBuilding(db, scan.uid))
              => /\ db' = db
                 /\ events' = <<>>
                 /\ scan'.pc = "idle"
                 /\ ~scan'.returned
       /\ ScanDelFind => ~scan'.dangling
       /\ ScanDelRemove
              => /\ hasBuilding(db, scan.uid)
                 /\ scan.removedBuildingType = db[scan.uid].buildingType
                 /\ ~hasBuilding(db', scan.uid)
                 /\ OthersUnchanged(scan.uid)
                 /\ scan'.pc = "delCallback"
       /\ (ScanDelCallback /\ onDelete)
              => /\ events' = <<[ev |-> "delete",
                                type |-> scan.removedBuildingType,
                                uid |-> scan.uid]>>
                 /\ scan'.returned]_vars

\* C21: scanForCards returns true if and only if the cycle inserted a Card
\* into or removed a Card from the registry; refresh-only cycles, Delete-mode
\* cycles on unregistered ids and cycles that inserted nothing return false.
C21_ReturnsTrueIffMutated ==
    [][/\ ScanNothing => ~scan'.returned
       /\ (scan.pc # "idle" /\ scan'.pc = "idle")
              => (scan'.returned <=>
                      \/ scan.pc = "delCallback"
                      \/ scan.pc = "addCallback" /\ scan.inserted = "true")]_vars

(***************************************************************************)
(* Further claims about the decoder (checked under SpecDecoder).           *)
(***************************************************************************)
\* C27 as stated: when the TLV walk reaches a 0xFE Terminator entry before
\* any 0x03 message TLV (after padding or skipped TLVs), scanning stops and
\* the result is 0, whatever bytes follow the terminator.
C27_TerminatorIsNotFound ==
    (Done /\ dec.stop = "terminator") => dec.result = 0

\* C27 as amended: ... the TLV walk stops at the terminator and the result
\* is that of the raw pattern scan over the whole buffer: the byte after the
\* first raw pattern [SR flag][1][>= 1]['B'] if there is one, else 0.
C27_TerminatorEndsWalk ==
    /\ dec.stop = "terminator" => dec.pc \in {"fallback", "done"}
    /\ (Done /\ dec.stop = "terminator")
           => IF RawPatternIndexes(data) = {}
              THEN dec.result = 0 /\ dec.site = "notfound"
              ELSE /\ dec.site = "fallback"
                   /\ dec.result = data[FirstRawPattern(data) + 5]

C27_Witness ==
    /\ Done
    /\ dec.stop = "terminator"
    /\ data[1] = NullTlv
    /\ dec.site = "fallback"
    /\ FirstRawPattern(data) = Len(data) - 5
    /\ dec.result = 42

\* C28: while the records of a message TLV with clamped range
\* [msgStart, msgEnd) are parsed, every field read (header, type length,
\* payload length, ID length, type tag, returned payload byte) is at an
\* index < msgEnd; a field at or beyond msgEnd is not read.
C28_RecordReadsInsideMessage ==
    [][dec.pc = "record" => \A idx \in dec'.reads : idx < dec.msgEnd]_vars

(***************************************************************************)
(* Further claims about the registry's calls (checked under SpecScan).     *)
(***************************************************************************)
\* C26: clearDatabase leaves the registry with size 0 and hasBuilding false
\* for every id, leaves the mode and both handlers unchanged, and fires no
\* RemovedCard event for the Cards it discards.
C26_ClearEmpties ==
    [][CallClearDatabase
          => /\ getDatabaseSize(db') = 0
             /\ \A u \in Uids : ~hasBuilding(db', u)
             /\ deleteMode' = deleteMode
             /\ onNew' = onNew
             /\ onDelete' = onDelete
             /\ events' = events]_vars

C26_Witness ==
    /\ ret = Called("clearDatabase", TRUE)
    /\ db = EmptyDb
    /\ deleteMode
    /\ onNew
    /\ onDelete
    /\ scan.pc = "idle"
    /\ scan.returned
    /\ events = <<[ev |-> "new", type |-> 3, uid |-> <<"0", "4", "A", "1">>]>>

\* C25: every registry operation holds the single registry lock whenever it
\* reads or writes registry state (Cards, mode flag, handler slots) and has
\* released it when it returns: no Card, mode or handler slot is written by
\* one actor while another actor holds the lock.
C25_EveryOperationLocks ==
    [][/\ (scan' = scan /\ db' # db) => ~scan.holdsMutex
       /\ (deleteMode' # deleteMode) => ~scan.holdsMutex
       /\ (onNew' # onNew \/ onDelete' # onDelete) => ~scan.holdsMutex
       /\ scan'.pc = "idle" => ~scan'.holdsMutex]_vars

(***************************************************************************)
(* Claims about the scan cycle's use of the reader (checked under          *)
(* SpecReader).                                                            *)
(***************************************************************************)
\* C22 as stated: in every scan cycle in which the reader detected a token,
\* the token is halted exactly once before the cycle ends, whether or not
\* selecting, reading, decoding or dispatching succeeded.
C22_DetectedTokenIsHalted ==
    (rdr.pc = "idle" /\ rdr.detected) => rdr.halts = 1

\* C22 as amended: in every scan cycle in which the reader detected and
\* selected a token, the token is halted exactly once, after reading and
\* decoding and before the dispatch, whether or not reading succeeded; a
\* cycle whose token cannot be selected ends without a halt.
C22_SelectedTokenIsHalted ==
    /\ rdr.pc # "idle" => rdr.halts = 0
    /\ (rdr.pc = "idle" /\ rdr.selected) => rdr.halts = 1
    /\ (rdr.pc = "idle" /\ ~rdr.selected) => rdr.halts = 0

C22_Witness ==
    /\ rdr.pc = "idle"
    /\ rdr.selected
    /\ rdr.halts = 1
    /\ scan.pc = "idle"
    /\ scan.returned
    /\ events = <<[ev |-> "new", type |-> 4, uid |-> <<"0", "4", "A", "1">>]>>

\* C23: a scan cycle with a null reader, with no token detected, or with a
\* token that cannot be selected is a no-op: the Cards and the mode are
\* unchanged, no handler fires, no memory block is read, and scanForCards
\* returns false.
C23_NoTokenIsNoOp ==
    [][(\/ ReaderNull
        \/ ReaderDetect /\ rdr'.pc = "idle"
        \/ ReaderSelect /\ rdr'.pc = "idle")
          => /\ db' = db
             /\ deleteMode' = deleteMode
             /\ events' = <<>>
             /\ rdr.log = <<>>
             /\ rdr'.log = <<>>
             /\ scan'.pc = "idle"
             /\ ~scan'.returned]_vars

C23_Witness ==
    /\ rdr.pc = "idle"
    /\ rdr.detected
    /\ ~rdr.selected
    /\ scan.pc = "idle"
    /\ ~scan.returned
    /\ getDatabaseSize(db) = 1
    /\ deleteMode
    /\ onDelete
    /\ events = <<>>

\* C24: the kind used for the dispatch is the decoder's result whenever the
\* raw-memory read succeeded (the sentinel 0 included) and the first
\* identifier byte mod 256 exactly when the read failed or is unsupported
\* (0 for an empty identifier); no cycle is stopped by malformed record
\* bytes: the decoder returns on whatever the read yielded.
C24_DispatchKind ==
    /\ rdr.pc = "halt"
           => IF rdr.readOk
              THEN \E junk \in JunkBytes :
                      rdr.buildingType = parseNDEFBuildingType(rdr.ndefData, junk)
              ELSE rdr.buildingType =
                      IF Len(rdr.uidByte) > 0 THEN rdr.uidByte[1] % 256 ELSE 0
    /\ (rdr.pc = "decode" /\ rdr.readOk)
           => \A junk \in JunkBytes :
                 parseNDEFBuildingType(rdr.ndefData, junk) # Hang

\* C29: the raw-memory read succeeds only if the capability-container block
\* was read with first byte 0xE1 and at least one data block was read; the
\* bytes it yields are whole 16-byte blocks in block order (at most 4 blocks
\* = 64 bytes), and no block is read after a block that contains 0xFE or
\* after a failed block read.
C29_RawReadBlocks ==
    rdr.pc \in {"page", "decode", "halt"}
        => LET log == rdr.log
               yield == [j \in 1 .. Len(log) - 1 |->
                            IF log[j + 1].ok THEN log[j + 1].bytes ELSE <<>>]
           IN  /\ (rdr.pc # "page" /\ rdr.readOk)
                      => /\ Len(log) >= 2
                         /\ log[1].ok
                         /\ log[1].bytes[1] = 225
                         /\ log[2].ok
                         /\ Len(rdr.ndefData) >= 16
               /\ Len(rdr.ndefData) % 16 = 0
               /\ Len(rdr.ndefData) <= 64
               /\ rdr.ndefData = Concat(yield)
               /\ Len(log) <= 5
               /\ \A j \in 1 .. Len(log) :
                     log[j].page = IF j = 1 THEN 3 ELSE 4 * (j - 1)
               /\ \A j \in 1 .. Len(log) - 1 :
                     /\ log[j].ok
                     /\ \A x \in 1 .. 16 : j = 1 \/ log[j].bytes[x] # 254

C29_Witness ==
    /\ rdr.pc = "decode"
    /\ rdr.readOk
    /\ Len(rdr.log) = 3
    /\ rdr.log[2].bytes = Zeros(16)
    /\ rdr.log[3].bytes = TagMemory(3)
    /\ rdr.ndefData = Zeros(16) \o TagMemory(3)

(***************************************************************************)
(* Claim about uidToString (checked under SpecUid).                        *)
(***************************************************************************)
\* C30: uidToString maps n identifier bytes to exactly 2n characters over
\* 0-9 and A-F, byte i as its two-digit zero-padded uppercase hexadecimal at
\* positions 2i and 2i+1; so distinct identifiers give distinct ids and a
\* non-empty identifier never gives an empty id.
C30_UidToStringIsHex ==
    rdr.pc = "type"
        => LET b == rdr.uidByte
               str == rdr.uid
           IN  /\ Len(str) = 2 * Len(b)
               /\ \A i \in 1 .. Len(b) :
                     /\ str[2 * i - 1] = UpperDigits[(b[i] \div 16) + 1]
                     /\ str[2 * i] = UpperDigits[(b[i] % 16) + 1]
               /\ \A other \in UidInputs : other # b => uidToString(other) # str
               /\ b # <<>> => str # <<>>

C30_Witness ==
    /\ rdr.pc = "type"
    /\ rdr.uidByte = <<10, 161>>
    /\ rdr.uid = <<"0", "A", "A", "1">>

(***************************************************************************)
(* Claims about runs of scan cycles (checked under SpecScan).              *)
(***************************************************************************)
\* C31: in a Delete-mode scan cycle the Card whose kind is captured is
\* present at the moment of capture: under every interleaving with another
\* actor calling removeBuilding(id) or clearDatabase() between the cycle's
\* existence check and its kind capture, no missing map entry is
\* dereferenced.
C31_CaptureFindsCard ==
    [][ScanDelFind
          => /\ hasBuilding(db, scan.uid)
             /\ ~scan'.dangling
             /\ scan'.removedBuildingType = db[scan.uid].buildingType]_vars

(***************************************************************************)
(* Claim about the Card lifecycle (checked under SpecLifecycle).           *)
(***************************************************************************)
EventsOf(uid) == SelectSeq(events, LAMBDA e : e.uid = uid)

\* C32: in a run of scan cycles of the single polling actor and
\* setDeleteMode calls only (both handlers registered, non-empty ids, no
\* clear, no direct add or remove) the events of each id alternate NewCard,
\* RemovedCard, NewCard, ... starting with NewCard, the kind of each
\* RemovedCard is the kind of the NewCard before it, and between two cycles
\* an id is registered exactly when its last event is NewCard.
C32_EventsAlternate ==
    /\ \A j \in 1 .. Len(events) : events[j].uid \in LifecycleUids
    /\ \A uid \in LifecycleUids :
          LET h == EventsOf(uid)
          IN  /\ \A j \in 1 .. Len(h) :
                    h[j].ev = IF j % 2 = 1 THEN "new" ELSE "delete"
              /\ \A j \in 2 .. Len(h) :
                    h[j].ev = "delete" => h[j].type = h[j - 1].type
              /\ scan.pc = "idle"
                    => (hasBuilding(db, uid)
                            <=> (Len(h) > 0 /\ h[Len(h)].ev = "new"))

C32_Witness ==
    /\ scan.pc = "idle"
    /\ deleteMode
    /\ ~hasBuilding(db, <<"0", "4", "A", "1">>)
    /\ hasBuilding(db, <<"B", "2">>)
    /\ events = <<[ev |-> "new", type |-> 3, uid |-> <<"0", "4", "A", "1">>],
                  [ev |-> "new", type |-> 178, uid |-> <<"B", "2">>],
                  [ev |-> "delete", type |-> 3, uid |-> <<"0", "4", "A", "1">>]>>
    /\ scan.returned

(***************************************************************************)
(* Claim about the older decoder (checked under SpecLegacy).               *)
(***************************************************************************)
\* C33: the older parseNDEFBuildingType of src/src/NFCBuildingRegistry.cpp
\* never indexes its input at a position >= N, for every buffer of length N,
\* message TLVs that end inside a record and records whose type or payload
\* length exceeds the remaining bytes included.
C33_LegacyNoReadPastEnd ==
    dec.pc \in {"tlv", "record", "done"}
        => \A idx \in dec.reads : 0 <= idx /\ idx < Len(data)

==============================================================================
